---- MODULE Spec2Model ----
(***************************************************************************)
(* Model of ref-exchange/src/pool.rs: the Pool enum that wraps SimplePool,  *)
(* StableSwapPool and RatedSwapPool and dispatches every operation to the   *)
(* wrapped pool, or hits unimplemented!() when the kind has no such         *)
(* operation.  The wrapped pools (simple_pool, stable_swap, rated_swap and  *)
(* rated_swap::rates) live outside pool.rs; their behaviour is modelled     *)
(* from the specification, with small stand-in arithmetic.                  *)
(***************************************************************************)
EXTENDS Integers, Sequences, FiniteSets, TLC

VARIABLES pool, inflight, ret

vars == <<pool, inflight, ret>>

(* ------------------------------ bounds -------------------------------- *)
MaxAmount == 1
MaxBalance == 2
MaxRate == 2
MaxInflight == 2
MaxVolume == MaxAmount

(* ----------------------------- constants ------------------------------ *)
SIMPLE_POOL == "SIMPLE_POOL"
STABLE_SWAP == "STABLE_SWAP"
RATED_SWAP == "RATED_SWAP"
Kinds == {SIMPLE_POOL, STABLE_SWAP, RATED_SWAP}

Tokens == <<"t1", "t2">>
N == Len(Tokens)
TokenPairs == {<<"t1", "t2">>, <<"t2", "t1">>, <<"t1", "t1">>, <<"t1", "tx">>}
Holders == {"alice", "bob"}
Fees == {0, 1}

Amounts == 0..MaxAmount
AmountVecs == [1..N -> Amounts]
AmountsIn == 1..MaxAmount
Guards == {0, MaxAmount}
GuardVecs == {[i \in 1..N |-> m] : m \in Guards}
RateVecs == {[i \in 1..N |-> IF i = 1 THEN r ELSE MaxRate + 1 - r] : r \in 1..MaxRate}
NoRates == <<>>
Payloads == RateVecs \cup {<<>>, <<1, 1, 1>>}
InitRates == [i \in 1..N |-> 1]

(* ------------------------------ helpers -------------------------------- *)
Min(a, b) == IF a < b THEN a ELSE b

RECURSIVE SumTo(_, _)
SumTo(s, n) == IF n = 0 THEN 0 ELSE s[n] + SumTo(s, n - 1)

SumSeq(s) == SumTo(s, Len(s))

RECURSIVE SumOver(_, _)
SumOver(f, S) ==
    IF S = {} THEN 0
    ELSE LET a == CHOOSE x \in S : TRUE IN f[a] + SumOver(f, S \ {a})

CeilDiv(a, b) == (a + b - 1) \div b

HasToken(t) == \E i \in 1..N : Tokens[i] = t
Index(t) == CHOOSE i \in 1..N : Tokens[i] = t

(* Outcomes of a call: a returned value, a reported failure that changes    *)
(* nothing, the fatal abort of unimplemented!(), or a pending promise.      *)
Ok(p, v) == [pool |-> p, status |-> "ok", val |-> v]
Fail(p) == [pool |-> p, status |-> "fail", val |-> <<>>]
Unimplemented(p) == [pool |-> p, status |-> "abort", val |-> <<>>]
Pending(p) == [pool |-> p, status |-> "promise", val |-> <<>>]
BoolVal(b) == IF b THEN <<1>> ELSE <<0>>

(* ----------------------------- SharesLedger ---------------------------- *)
BalanceOf(p, a) == IF a \in p.registered THEN p.shares[a] ELSE 0

LedgerRegister(p, a) == [p EXCEPT !.registered = @ \cup {a}]

LedgerMint(p, a, n) ==
    [p EXCEPT !.shares[a] = @ + n, !.shares_total_supply = @ + n]

LedgerBurn(p, a, n) ==
    [p EXCEPT !.shares[a] = @ - n, !.shares_total_supply = @ - n]

LedgerTransfer(p, from, to, n) ==
    IF BalanceOf(p, from) < n \/ to \notin p.registered
    THEN Fail(p)
    ELSE LET debited == [p EXCEPT !.shares[from] = @ - n]
         IN Ok([debited EXCEPT !.shares[to] = @ + n], <<>>)

(* ------------------------- committed rates in use ---------------------- *)
RatesOf(p) == IF p.kind = RATED_SWAP THEN p.rates ELSE InitRates

Weighted(v, r) == SumTo([i \in 1..N |-> v[i] * r[i]], N)

(* ------------------------------ SimplePool ----------------------------- *)
Simple_add_liquidity(p, sender, amounts) ==
    LET fair == IF p.shares_total_supply = 0
                THEN Min(amounts[1], amounts[2])
                ELSE IF \E i \in 1..N : p.amounts[i] = 0 THEN 0
                ELSE Min((amounts[1] * p.shares_total_supply) \div p.amounts[1],
                         (amounts[2] * p.shares_total_supply) \div p.amounts[2])
    IN IF sender \notin p.registered \/ fair = 0
       THEN Fail(p)
       ELSE Ok(LedgerMint([p EXCEPT !.amounts = [i \in 1..N |-> @[i] + amounts[i]]],
                          sender, fair),
               <<fair>>)

Simple_get_return(p, token_in, amount_in, token_out) ==
    IF ~HasToken(token_in) \/ ~HasToken(token_out) \/ token_in = token_out
    THEN Fail(p)
    ELSE LET i == Index(token_in)
             o == Index(token_out)
         IN Ok(p, <<(amount_in * p.amounts[o]) \div (p.amounts[i] + amount_in)>>)

(* ---------------------- StableSwapPool / RatedSwapPool ----------------- *)
Stable_add_liquidity(p, sender, amounts, min_shares, fee) ==
    LET gross == Weighted(amounts, RatesOf(p))
        minted == IF gross > fee THEN gross - fee ELSE 0
    IN IF sender \notin p.registered \/ minted = 0 \/ minted < min_shares
       THEN Fail(p)
       ELSE Ok(LedgerMint([p EXCEPT !.amounts = [i \in 1..N |-> @[i] + amounts[i]]],
                          sender, minted),
               <<minted>>)

Stable_burn_for(p, amounts, rates, fee) ==
    LET value == Weighted(amounts, rates)
        total == Weighted(p.amounts, rates)
    IN IF total = 0 THEN 0
       ELSE CeilDiv(value * p.shares_total_supply, total) + fee

Stable_remove_liquidity_by_tokens(p, sender, amounts, max_burn_shares, fee) ==
    LET burn == Stable_burn_for(p, amounts, RatesOf(p), fee)
    IN IF \/ \E i \in 1..N : amounts[i] > p.amounts[i]
          \/ SumSeq(amounts) = 0
          \/ burn = 0
          \/ burn > max_burn_shares
          \/ BalanceOf(p, sender) < burn
       THEN Fail(p)
       ELSE Ok(LedgerBurn([p EXCEPT !.amounts = [i \in 1..N |-> @[i] - amounts[i]]],
                          sender, burn),
               <<burn>>)

Stable_predict_add_liquidity(p, amounts, rates, fee) ==
    LET gross == Weighted(amounts, rates)
    IN IF gross > fee THEN Ok(p, <<gross - fee>>) ELSE Fail(p)

Stable_predict_remove_liquidity(p, shares) ==
    IF shares = 0 \/ shares > p.shares_total_supply
    THEN Fail(p)
    ELSE Ok(p, [i \in 1..N |-> (p.amounts[i] * shares) \div p.shares_total_supply])

Stable_predict_remove_liquidity_by_tokens(p, amounts, rates, fee) ==
    LET burn == Stable_burn_for(p, amounts, rates, fee)
    IN IF \/ \E i \in 1..N : amounts[i] > p.amounts[i]
          \/ SumSeq(amounts) = 0
          \/ burn = 0
       THEN Fail(p)
       ELSE Ok(p, <<burn>>)

Stable_get_rated_return(p, token_in, amount_in, token_out, rates, fee) ==
    IF ~HasToken(token_in) \/ ~HasToken(token_out) \/ token_in = token_out
    THEN Fail(p)
    ELSE LET i == Index(token_in)
             o == Index(token_out)
             gross == Min((amount_in * rates[i]) \div rates[o], p.amounts[o])
         IN Ok(p, <<IF gross > fee THEN gross - fee ELSE 0>>)

Stable_get_return(p, token_in, amount_in, token_out, fee) ==
    Stable_get_rated_return(p, token_in, amount_in, token_out, RatesOf(p), fee)

Stable_get_share_price(p) ==
    IF p.shares_total_supply = 0 THEN Ok(p, <<0>>)
    ELSE Ok(p, <<Weighted(p.amounts, RatesOf(p)) \div p.shares_total_supply>>)

(* ------------------- shared by the three wrapped pools ----------------- *)
Inner_remove_liquidity(p, sender, shares, min_amounts) ==
    LET out == [i \in 1..N |->
                   IF p.shares_total_supply = 0 THEN 0
                   ELSE (p.amounts[i] * shares) \div p.shares_total_supply]
    IN IF \/ shares = 0
          \/ BalanceOf(p, sender) < shares
          \/ \E i \in 1..N : out[i] < min_amounts[i]
       THEN Fail(p)
       ELSE Ok(LedgerBurn([p EXCEPT !.amounts = [i \in 1..N |-> @[i] - out[i]]],
                          sender, shares),
               out)

Inner_swap(p, quote, token_in, amount_in, token_out, min_amount_out) ==
    IF quote.status # "ok" THEN Fail(p)
    ELSE LET out == quote.val[1]
             i == Index(token_in)
             o == Index(token_out)
         IN IF out < min_amount_out
            THEN Fail(p)
            ELSE Ok([p EXCEPT !.amounts[i] = @ + amount_in,
                              !.amounts[o] = @ - out,
                              !.volumes[i] = @ + amount_in,
                              !.volumes[o] = @ + out],
                    <<out>>)

(* ------------------------------ RateOracle ----------------------------- *)
ParseRates(bytes) == IF Len(bytes) = N THEN bytes ELSE NoRates

Rates_update(p) == Pending(p)

Rates_update_callback_keeps_refreshing(p, cross_call_result) ==
    LET parsed == ParseRates(cross_call_result)
    IN IF parsed = NoRates
       THEN [pool |-> [p EXCEPT !.refreshing = TRUE],
             status |-> "ok", val |-> BoolVal(FALSE)]
       ELSE [pool |-> [p EXCEPT !.rates = parsed, !.refreshing = FALSE],
             status |-> "ok", val |-> BoolVal(TRUE)]

Rates_update_callback(p, cross_call_result) ==
    LET parsed == ParseRates(cross_call_result)
    IN IF parsed = NoRates
       THEN [pool |-> [p EXCEPT !.refreshing = FALSE],
             status |-> "ok", val |-> BoolVal(FALSE)]
       ELSE [pool |-> [p EXCEPT !.rates = parsed, !.refreshing = FALSE],
             status |-> "ok", val |-> BoolVal(TRUE)]

(* ------------------------- Pool: the dispatcher ------------------------ *)
Pool_kind(self) == Ok(self, self.kind)

Pool_tokens(self) == Ok(self, self.token_account_ids)

Pool_add_liquidity_falls_through(self, sender_id, amounts) ==
    CASE self.kind = SIMPLE_POOL -> Simple_add_liquidity(self, sender_id, amounts)
      [] self.kind = STABLE_SWAP -> Simple_add_liquidity(self, sender_id, amounts)
      [] self.kind = RATED_SWAP -> Unimplemented(self)

Pool_add_liquidity(self, sender_id, amounts) ==
    CASE self.kind = SIMPLE_POOL -> Simple_add_liquidity(self, sender_id, amounts)
      [] self.kind = STABLE_SWAP -> Unimplemented(self)
      [] self.kind = RATED_SWAP -> Unimplemented(self)

Pool_add_stable_liquidity(self, sender_id, amounts, min_shares, admin_fee) ==
    CASE self.kind = SIMPLE_POOL -> Unimplemented(self)
      [] self.kind = STABLE_SWAP ->
            Stable_add_liquidity(self, sender_id, amounts, min_shares, admin_fee)
      [] self.kind = RATED_SWAP ->
            Stable_add_liquidity(self, sender_id, amounts, min_shares, admin_fee)

Pool_remove_liquidity(self, sender_id, shares, min_amounts) ==
    CASE self.kind = SIMPLE_POOL ->
            Inner_remove_liquidity(self, sender_id, shares, min_amounts)
      [] self.kind = STABLE_SWAP ->
            Inner_remove_liquidity(self, sender_id, shares, min_amounts)
      [] self.kind = RATED_SWAP ->
            Inner_remove_liquidity(self, sender_id, shares, min_amounts)

Pool_remove_liquidity_by_tokens_registers_first(self, sender_id, amounts, max_burn_shares, admin_fee) ==
    CASE self.kind = SIMPLE_POOL -> Unimplemented(LedgerRegister(self, sender_id))
      [] self.kind = STABLE_SWAP ->
            Stable_remove_liquidity_by_tokens(self, sender_id, amounts,
                                              max_burn_shares, admin_fee)
      [] self.kind = RATED_SWAP ->
            Stable_remove_liquidity_by_tokens(self, sender_id, amounts,
                                              max_burn_shares, admin_fee)

Pool_remove_liquidity_by_tokens_unlimited(self, sender_id, amounts, max_burn_shares, admin_fee) ==
    CASE self.kind = SIMPLE_POOL -> Unimplemented(self)
      [] self.kind = STABLE_SWAP ->
            Stable_remove_liquidity_by_tokens(self, sender_id, amounts,
                                              max_burn_shares, admin_fee)
      [] self.kind = RATED_SWAP ->
            Stable_remove_liquidity_by_tokens(self, sender_id, amounts,
                                              self.shares_total_supply, admin_fee)

Pool_remove_liquidity_by_tokens(self, sender_id, amounts, max_burn_shares, admin_fee) ==
    CASE self.kind = SIMPLE_POOL -> Unimplemented(self)
      [] self.kind = STABLE_SWAP ->
            Stable_remove_liquidity_by_tokens(self, sender_id, amounts,
                                              max_burn_shares, admin_fee)
      [] self.kind = RATED_SWAP ->
            Stable_remove_liquidity_by_tokens(self, sender_id, amounts,
                                              max_burn_shares, admin_fee)

Pool_get_return(self, token_in, amount_in, token_out, fees) ==
    CASE self.kind = SIMPLE_POOL ->
            Simple_get_return(self, token_in, amount_in, token_out)
      [] self.kind = STABLE_SWAP ->
            Stable_get_return(self, token_in, amount_in, token_out, fees)
      [] self.kind = RATED_SWAP ->
            Stable_get_return(self, token_in, amount_in, token_out, fees)

Pool_get_volumes(self) ==
    CASE self.kind = SIMPLE_POOL -> Ok(self, self.volumes)
      [] self.kind = STABLE_SWAP -> Ok(self, self.volumes)
      [] self.kind = RATED_SWAP -> Ok(self, self.volumes)

Pool_get_share_price(self) ==
    CASE self.kind = SIMPLE_POOL -> Unimplemented(self)
      [] self.kind = STABLE_SWAP -> Stable_get_share_price(self)
      [] self.kind = RATED_SWAP -> Stable_get_share_price(self)

Pool_swap_ignores_minimum(self, token_in, amount_in, token_out, min_amount_out, admin_fee) ==
    CASE self.kind = SIMPLE_POOL ->
            Inner_swap(self, Simple_get_return(self, token_in, amount_in, token_out),
                       token_in, amount_in, token_out, min_amount_out)
      [] self.kind = STABLE_SWAP ->
            Inner_swap(self,
                       Stable_get_return(self, token_in, amount_in, token_out, admin_fee),
                       token_in, amount_in, token_out, 0)
      [] self.kind = RATED_SWAP ->
            Inner_swap(self,
                       Stable_get_return(self, token_in, amount_in, token_out, admin_fee),
                       token_in, amount_in, token_out, min_amount_out)

Pool_swap_counts_attempts(self, token_in, amount_in, token_out, min_amount_out, admin_fee) ==
    LET quote == IF self.kind = SIMPLE_POOL
                 THEN Simple_get_return(self, token_in, amount_in, token_out)
                 ELSE Stable_get_return(self, token_in, amount_in, token_out, admin_fee)
        r == Inner_swap(self, quote, token_in, amount_in, token_out, min_amount_out)
    IN IF r.status = "fail" /\ quote.status = "ok"
       THEN [r EXCEPT !.pool.volumes[Index(token_in)] = @ + amount_in]
       ELSE r

Pool_swap_charges_simple(self, token_in, amount_in, token_out, min_amount_out, admin_fee) ==
    CASE self.kind = SIMPLE_POOL ->
            Inner_swap(self,
                       Stable_get_return(self, token_in, amount_in, token_out, admin_fee),
                       token_in, amount_in, token_out, min_amount_out)
      [] self.kind = STABLE_SWAP ->
            Inner_swap(self,
                       Stable_get_return(self, token_in, amount_in, token_out, admin_fee),
                       token_in, amount_in, token_out, min_amount_out)
      [] self.kind = RATED_SWAP ->
            Inner_swap(self,
                       Stable_get_return(self, token_in, amount_in, token_out, admin_fee),
                       token_in, amount_in, token_out, min_amount_out)

Pool_swap(self, token_in, amount_in, token_out, min_amount_out, admin_fee) ==
    CASE self.kind = SIMPLE_POOL ->
            Inner_swap(self, Simple_get_return(self, token_in, amount_in, token_out),
                       token_in, amount_in, token_out, min_amount_out)
      [] self.kind = STABLE_SWAP ->
            Inner_swap(self,
                       Stable_get_return(self, token_in, amount_in, token_out, admin_fee),
                       token_in, amount_in, token_out, min_amount_out)
      [] self.kind = RATED_SWAP ->
            Inner_swap(self,
                       Stable_get_return(self, token_in, amount_in, token_out, admin_fee),
                       token_in, amount_in, token_out, min_amount_out)

Pool_share_total_balance(self) == self.shares_total_supply

Pool_share_balances(self, account_id) == BalanceOf(self, account_id)

Pool_share_transfer_credits_only(self, sender_id, receiver_id, amount) ==
    CASE self.kind = SIMPLE_POOL -> LedgerTransfer(self, sender_id, receiver_id, amount)
      [] self.kind = STABLE_SWAP -> LedgerTransfer(self, sender_id, receiver_id, amount)
      [] self.kind = RATED_SWAP ->
            IF LedgerTransfer(self, sender_id, receiver_id, amount).status = "ok"
            THEN Ok([self EXCEPT !.shares[receiver_id] = @ + amount], <<>>)
            ELSE Fail(self)

Pool_share_transfer_stable_only(self, sender_id, receiver_id, amount) ==
    CASE self.kind = SIMPLE_POOL -> Unimplemented(self)
      [] self.kind = STABLE_SWAP -> LedgerTransfer(self, sender_id, receiver_id, amount)
      [] self.kind = RATED_SWAP -> LedgerTransfer(self, sender_id, receiver_id, amount)

Pool_share_transfer(self, sender_id, receiver_id, amount) ==
    CASE self.kind = SIMPLE_POOL -> LedgerTransfer(self, sender_id, receiver_id, amount)
      [] self.kind = STABLE_SWAP -> LedgerTransfer(self, sender_id, receiver_id, amount)
      [] self.kind = RATED_SWAP -> LedgerTransfer(self, sender_id, receiver_id, amount)

Pool_share_register_retags(self, account_id) ==
    CASE self.kind = SIMPLE_POOL -> Ok(LedgerRegister(self, account_id), <<>>)
      [] self.kind = STABLE_SWAP -> Ok(LedgerRegister(self, account_id), <<>>)
      [] self.kind = RATED_SWAP ->
            Ok([LedgerRegister(self, account_id) EXCEPT !.kind = STABLE_SWAP], <<>>)

Pool_share_register(self, account_id) ==
    CASE self.kind = SIMPLE_POOL -> Ok(LedgerRegister(self, account_id), <<>>)
      [] self.kind = STABLE_SWAP -> Ok(LedgerRegister(self, account_id), <<>>)
      [] self.kind = RATED_SWAP -> Ok(LedgerRegister(self, account_id), <<>>)

Pool_predict_add_stable_liquidity_serves_rated(self, amounts, fees) ==
    CASE self.kind = SIMPLE_POOL -> Unimplemented(self)
      [] self.kind = STABLE_SWAP ->
            Stable_predict_add_liquidity(self, amounts, RatesOf(self), fees)
      [] self.kind = RATED_SWAP ->
            Stable_predict_add_liquidity(self, amounts, RatesOf(self), fees)

Pool_predict_add_stable_liquidity(self, amounts, fees) ==
    CASE self.kind = SIMPLE_POOL -> Unimplemented(self)
      [] self.kind = STABLE_SWAP ->
            Stable_predict_add_liquidity(self, amounts, RatesOf(self), fees)
      [] self.kind = RATED_SWAP -> Unimplemented(self)

Pool_predict_remove_liquidity(self, shares) ==
    CASE self.kind = SIMPLE_POOL -> Unimplemented(self)
      [] self.kind = STABLE_SWAP -> Stable_predict_remove_liquidity(self, shares)
      [] self.kind = RATED_SWAP -> Stable_predict_remove_liquidity(self, shares)

Pool_predict_remove_liquidity_by_tokens(self, amounts, fees) ==
    CASE self.kind = SIMPLE_POOL -> Unimplemented(self)
      [] self.kind = STABLE_SWAP ->
            Stable_predict_remove_liquidity_by_tokens(self, amounts, RatesOf(self), fees)
      [] self.kind = RATED_SWAP ->
            Stable_predict_remove_liquidity_by_tokens(self, amounts, RatesOf(self), fees)

Pool_predict_add_rated_liquidity(self, amounts, rates, fees) ==
    CASE self.kind = SIMPLE_POOL -> Unimplemented(self)
      [] self.kind = STABLE_SWAP -> Unimplemented(self)
      [] self.kind = RATED_SWAP ->
            Stable_predict_add_liquidity(self, amounts,
                                         IF rates = NoRates THEN self.rates ELSE rates,
                                         fees)

Pool_predict_remove_rated_liquidity_by_tokens(self, amounts, rates, fees) ==
    CASE self.kind = SIMPLE_POOL -> Unimplemented(self)
      [] self.kind = STABLE_SWAP -> Unimplemented(self)
      [] self.kind = RATED_SWAP ->
            Stable_predict_remove_liquidity_by_tokens(
                self, amounts, IF rates = NoRates THEN self.rates ELSE rates, fees)

Pool_get_rated_return_commits(self, token_in, amount_in, token_out, rates, fees) ==
    CASE self.kind = SIMPLE_POOL -> Unimplemented(self)
      [] self.kind = STABLE_SWAP -> Unimplemented(self)
      [] self.kind = RATED_SWAP ->
            LET used == IF rates = NoRates THEN self.rates ELSE rates
                r == Stable_get_rated_return(self, token_in, amount_in, token_out,
                                             used, fees)
            IN [r EXCEPT !.pool.rates = used]

Pool_get_rated_return(self, token_in, amount_in, token_out, rates, fees) ==
    CASE self.kind = SIMPLE_POOL -> Unimplemented(self)
      [] self.kind = STABLE_SWAP -> Unimplemented(self)
      [] self.kind = RATED_SWAP ->
            Stable_get_rated_return(self, token_in, amount_in, token_out,
                                    IF rates = NoRates THEN self.rates ELSE rates,
                                    fees)

Pool_update_rates_resets(self) ==
    CASE self.kind = SIMPLE_POOL -> Unimplemented(self)
      [] self.kind = STABLE_SWAP -> Unimplemented(self)
      [] self.kind = RATED_SWAP -> Pending([self EXCEPT !.rates = InitRates])

Pool_update_rates_sets_flag(self) ==
    CASE self.kind = SIMPLE_POOL -> Unimplemented(self)
      [] self.kind = STABLE_SWAP -> Unimplemented(self)
      [] self.kind = RATED_SWAP -> Pending([self EXCEPT !.refreshing = TRUE])

Pool_update_rates_prewrites(self) ==
    CASE self.kind = SIMPLE_POOL -> Unimplemented(self)
      [] self.kind = STABLE_SWAP -> Unimplemented(self)
      [] self.kind = RATED_SWAP ->
            Pending([self EXCEPT !.rates = [i \in 1..N |-> MaxRate]])

(* update_rates borrows the pool immutably (&self): it cannot write it.    *)
Pool_update_rates(self) ==
    CASE self.kind = SIMPLE_POOL -> Unimplemented(self)
      [] self.kind = STABLE_SWAP -> Unimplemented(self)
      [] self.kind = RATED_SWAP -> [Rates_update(self) EXCEPT !.pool = self]

Pool_update_callback_always_true(self, cross_call_result) ==
    CASE self.kind = SIMPLE_POOL -> Unimplemented(self)
      [] self.kind = STABLE_SWAP -> Unimplemented(self)
      [] self.kind = RATED_SWAP ->
            [Rates_update_callback(self, cross_call_result)
                EXCEPT !.val = BoolVal(TRUE)]

Pool_update_callback_drops(self, cross_call_result) ==
    CASE self.kind = SIMPLE_POOL -> Unimplemented(self)
      [] self.kind = STABLE_SWAP -> Unimplemented(self)
      [] self.kind = RATED_SWAP ->
            [Rates_update_callback(self, cross_call_result) EXCEPT !.pool = self]

Pool_update_callback_partial(self, cross_call_result) ==
    CASE self.kind = SIMPLE_POOL -> Unimplemented(self)
      [] self.kind = STABLE_SWAP -> Unimplemented(self)
      [] self.kind = RATED_SWAP ->
            LET r == Rates_update_callback(self, cross_call_result)
            IN [r EXCEPT !.pool.rates = [self.rates EXCEPT ![1] = r.pool.rates[1]]]

Pool_update_callback(self, cross_call_result) ==
    CASE self.kind = SIMPLE_POOL -> Unimplemented(self)
      [] self.kind = STABLE_SWAP -> Unimplemented(self)
      [] self.kind = RATED_SWAP -> Rates_update_callback(self, cross_call_result)

(* ------------------------------ the machine ---------------------------- *)
NewPool(k) ==
    [kind |-> k,
     token_account_ids |-> Tokens,
     amounts |-> [i \in 1..N |-> 0],
     volumes |-> [i \in 1..N |-> 0],
     registered |-> {},
     shares |-> [a \in Holders |-> 0],
     shares_total_supply |-> 0,
     rates |-> InitRates,
     refreshing |-> FALSE]

InBounds(p) ==
    /\ \A i \in 1..N : p.amounts[i] <= MaxBalance /\ p.volumes[i] <= MaxVolume
    /\ p.shares_total_supply <= MaxBalance

NoCall == [op |-> "none", status |-> "none", val |-> <<>>, arg |-> <<>>]

Init ==
    /\ \E k \in Kinds : pool = NewPool(k)
    /\ inflight = 0
    /\ ret = NoCall

(* A call runs to completion as one unit of work and hands its outcome to  *)
(* the caller; the caller takes it before the next call is made.           *)
Return(op, r, arg) ==
    /\ pool' = r.pool
    /\ InBounds(pool')
    /\ ret' = [op |-> op, status |-> r.status, val |-> r.val, arg |-> arg]

add_liquidity ==
    /\ ret = NoCall
    /\ \E s \in Holders, am \in AmountVecs :
          Return("add_liquidity", Pool_add_liquidity(pool, s, am), <<>>)
    /\ UNCHANGED inflight

add_stable_liquidity ==
    /\ ret = NoCall
    /\ \E s \in Holders, am \in AmountVecs, ms \in Guards, f \in Fees :
          Return("add_stable_liquidity",
                 Pool_add_stable_liquidity(pool, s, am, ms, f), <<>>)
    /\ UNCHANGED inflight

remove_liquidity ==
    /\ ret = NoCall
    /\ \E s \in Holders, sh \in AmountsIn, ma \in GuardVecs :
          Return("remove_liquidity", Pool_remove_liquidity(pool, s, sh, ma), <<>>)
    /\ UNCHANGED inflight

remove_liquidity_by_tokens ==
    /\ ret = NoCall
    /\ \E s \in Holders, am \in AmountVecs, mb \in AmountsIn, f \in Fees :
          Return("remove_liquidity_by_tokens",
                 Pool_remove_liquidity_by_tokens(pool, s, am, mb, f), <<>>)
    /\ UNCHANGED inflight

get_return ==
    /\ ret = NoCall
    /\ \E t \in TokenPairs, a \in AmountsIn, f \in Fees :
          Return("get_return", Pool_get_return(pool, t[1], a, t[2], f), <<>>)
    /\ UNCHANGED inflight

get_share_price ==
    /\ ret = NoCall
    /\ Return("get_share_price", Pool_get_share_price(pool), <<>>)
    /\ UNCHANGED inflight

swap ==
    /\ ret = NoCall
    /\ \E t \in TokenPairs, a \in AmountsIn, mo \in Guards, f \in Fees :
          Return("swap", Pool_swap(pool, t[1], a, t[2], mo, f), <<>>)
    /\ UNCHANGED inflight

share_transfer ==
    /\ ret = NoCall
    /\ \E s \in Holders, r \in Holders, a \in Amounts :
          Return("share_transfer", Pool_share_transfer(pool, s, r, a), <<>>)
    /\ UNCHANGED inflight

share_register ==
    /\ ret = NoCall
    /\ \E a \in Holders :
          Return("share_register", Pool_share_register(pool, a), <<>>)
    /\ UNCHANGED inflight

get_rated_return ==
    /\ ret = NoCall
    /\ \E t \in TokenPairs, a \in AmountsIn, r \in RateVecs \cup {NoRates}, f \in Fees :
          Return("get_rated_return",
                 Pool_get_rated_return(pool, t[1], a, t[2], r, f), <<>>)
    /\ UNCHANGED inflight

kind ==
    /\ ret = NoCall
    /\ Return("kind", [Pool_kind(pool) EXCEPT !.val = <<@>>], <<>>)
    /\ UNCHANGED inflight

tokens ==
    /\ ret = NoCall
    /\ Return("tokens", Pool_tokens(pool), <<>>)
    /\ UNCHANGED inflight

get_volumes ==
    /\ ret = NoCall
    /\ Return("get_volumes", Pool_get_volumes(pool), <<>>)
    /\ UNCHANGED inflight

predict_add_stable_liquidity ==
    /\ ret = NoCall
    /\ \E am \in AmountVecs, f \in Fees :
          Return("predict_add_stable_liquidity",
                 Pool_predict_add_stable_liquidity(pool, am, f), <<>>)
    /\ UNCHANGED inflight

predict_remove_liquidity ==
    /\ ret = NoCall
    /\ \E sh \in AmountsIn :
          Return("predict_remove_liquidity",
                 Pool_predict_remove_liquidity(pool, sh), <<>>)
    /\ UNCHANGED inflight

predict_remove_liquidity_by_tokens ==
    /\ ret = NoCall
    /\ \E am \in AmountVecs, f \in Fees :
          Return("predict_remove_liquidity_by_tokens",
                 Pool_predict_remove_liquidity_by_tokens(pool, am, f), <<>>)
    /\ UNCHANGED inflight

predict_add_rated_liquidity ==
    /\ ret = NoCall
    /\ \E am \in AmountVecs, r \in RateVecs \cup {NoRates}, f \in Fees :
          Return("predict_add_rated_liquidity",
                 Pool_predict_add_rated_liquidity(pool, am, r, f), r)
    /\ UNCHANGED inflight

predict_remove_rated_liquidity_by_tokens ==
    /\ ret = NoCall
    /\ \E am \in AmountVecs, r \in RateVecs \cup {NoRates}, f \in Fees :
          Return("predict_remove_rated_liquidity_by_tokens",
                 Pool_predict_remove_rated_liquidity_by_tokens(pool, am, r, f), r)
    /\ UNCHANGED inflight

(* A returned promise is a request in flight; an abort issues none.        *)
update_rates ==
    LET r == Pool_update_rates(pool)
    IN /\ ret = NoCall
       /\ Return("update_rates", r, <<>>)
       /\ inflight' = IF r.status = "promise" THEN inflight + 1 ELSE inflight
       /\ inflight' <= MaxInflight

(* The runtime delivers one callback per request in flight; on the kinds   *)
(* without rates the call aborts whoever makes it.                          *)
update_callback ==
    /\ ret = NoCall
    /\ pool.kind = RATED_SWAP => inflight > 0
    /\ \E bytes \in Payloads :
          Return("update_callback", Pool_update_callback(pool, bytes), bytes)
    /\ inflight' = IF pool.kind = RATED_SWAP THEN inflight - 1 ELSE inflight

taken ==
    /\ ret # NoCall
    /\ ret' = NoCall
    /\ UNCHANGED <<pool, inflight>>

Next ==
    \/ taken
    \/ add_liquidity
    \/ add_stable_liquidity
    \/ remove_liquidity
    \/ remove_liquidity_by_tokens
    \/ get_return
    \/ get_share_price
    \/ swap
    \/ share_transfer
    \/ share_register
    \/ get_rated_return
    \/ kind
    \/ tokens
    \/ get_volumes
    \/ update_rates
    \/ update_callback

Spec == Init /\ [][Next]_vars

(* The pool under its view calls: the operations that build up liquidity   *)
(* and rates, and the predictions and rate-override quotes read from it.    *)
NextViews ==
    \/ taken
    \/ add_liquidity
    \/ add_stable_liquidity
    \/ swap
    \/ share_register
    \/ update_rates
    \/ update_callback
    \/ get_rated_return
    \/ predict_add_stable_liquidity
    \/ predict_remove_liquidity
    \/ predict_remove_liquidity_by_tokens
    \/ predict_add_rated_liquidity
    \/ predict_remove_rated_liquidity_by_tokens

SpecViews == Init /\ [][NextViews]_vars

TypeOK ==
    /\ pool.kind \in Kinds
    /\ inflight \in 0..MaxInflight
    /\ InBounds(pool)

(* ------------------------------- claims -------------------------------- *)
Called(op) == ret.op = op

(* The support matrix: the operations a kind does not have.                *)
Unsupported(k, op) ==
    \/ op = "add_liquidity" /\ k \in {STABLE_SWAP, RATED_SWAP}
    \/ op \in {"add_stable_liquidity", "remove_liquidity_by_tokens", "get_share_price"}
       /\ k = SIMPLE_POOL
    \/ op \in {"get_rated_return", "update_rates", "update_callback"}
       /\ k \in {SIMPLE_POOL, STABLE_SWAP}

(* C1: an operation the support matrix marks unsupported for the pool's    *)
(* kind aborts fatally and returns no value.                               *)
C1_UnsupportedAborts ==
    Unsupported(pool.kind, ret.op) => ret.status = "abort" /\ ret.val = <<>>

C1_Witness ==
    /\ pool.kind = STABLE_SWAP
    /\ Called("update_callback")
    /\ ret.status = "abort"
    /\ pool.shares_total_supply > 0

(* C2: a call that aborts as a contract violation leaves the whole pool    *)
(* state (ledger, supply, reserves, volumes, rates, refresh flag) and the  *)
(* requests in flight exactly as they were before the call.                *)
C2_AbortChangesNothing ==
    [][ret'.status = "abort" => pool' = pool /\ inflight' = inflight]_vars

C2_Witness ==
    /\ pool.kind = SIMPLE_POOL
    /\ Called("remove_liquidity_by_tokens")
    /\ ret.status = "abort"
    /\ pool.shares_total_supply > 0
    /\ pool.volumes[1] > 0

(* C3: in every reachable state the holders' share balances add up to the  *)
(* pool's total share supply.                                              *)
C3_SharesSumToSupply ==
    SumOver([a \in Holders |-> Pool_share_balances(pool, a)], Holders)
       = Pool_share_total_balance(pool)

C3_Witness ==
    /\ Called("share_transfer")
    /\ ret.status = "ok"
    /\ \A a \in Holders : Pool_share_balances(pool, a) > 0
    /\ pool.volumes[1] > 0

WellFormed(bytes) == bytes \in RateVecs

CallbackRan == pool.kind = RATED_SWAP /\ ret'.op = "update_callback"

RequestRan == pool.kind = RATED_SWAP /\ ret'.op = "update_rates"

(* C4: on a RatedStable pool only update_callback writes the committed     *)
(* rates; update_rates and every other operation leave them as they were.  *)
C4_OnlyCallbackWritesRates ==
    [][pool.kind = RATED_SWAP /\ pool'.rates # pool.rates
          => ret'.op = "update_callback"]_vars

C4_Witness ==
    /\ pool.kind = RATED_SWAP
    /\ Called("update_rates")
    /\ ret.status = "promise"
    /\ pool.rates # InitRates
    /\ pool.shares_total_supply > 0

(* C5: a malformed or failed response makes update_callback return false   *)
(* and leaves every committed rate as it was.                              *)
C5_MalformedLeavesRates ==
    [][CallbackRan /\ ~WellFormed(ret'.arg)
          => ret'.val = BoolVal(FALSE) /\ pool'.rates = pool.rates]_vars

C5_Witness ==
    /\ pool.kind = RATED_SWAP
    /\ Called("update_callback")
    /\ ~WellFormed(ret.arg)
    /\ ret.val = BoolVal(FALSE)
    /\ pool.rates # InitRates

(* C6: a well-formed, successful response makes update_callback return     *)
(* true, and after it every token's committed rate is the one of that      *)
(* response: the mapping is replaced as a whole.                           *)
C6_WellFormedReplacesRates ==
    [][CallbackRan /\ WellFormed(ret'.arg)
          => /\ ret'.val = BoolVal(TRUE)
             /\ \A i \in 1..N : pool'.rates[i] = ret'.arg[i]]_vars

C6_Witness ==
    /\ pool.kind = RATED_SWAP
    /\ Called("update_callback")
    /\ WellFormed(ret.arg)
    /\ ret.val = BoolVal(TRUE)
    /\ pool.rates = ret.arg

C8_RequestSetsFlag ==
    [][RequestRan /\ ~pool.refreshing
          => pool'.refreshing /\ ret'.status = "promise"]_vars

(* C8, amended: update_rates on an Idle oracle writes nothing, the refresh  *)
(* flag included: it leaves the pool as it was, puts one request in flight *)
(* and returns a pending-result handle.                                    *)
C8_RequestWritesNothing ==
    [][RequestRan /\ ~pool.refreshing
          => /\ pool' = pool
             /\ ret'.status = "promise"
             /\ inflight' = inflight + 1]_vars

C8_Witness ==
    /\ pool.kind = RATED_SWAP
    /\ Called("update_rates")
    /\ ret.status = "promise"
    /\ ~pool.refreshing
    /\ inflight = 1

(* C9: with overlapping requests, whose callbacks arrive in any order, the  *)
(* rate mapping after each step is the mapping committed before the step   *)
(* or the complete mapping of the one response that step delivered.        *)
C9_NoInterleavedWrite ==
    [][pool.kind = RATED_SWAP
          => \/ pool'.rates = pool.rates
             \/ /\ ret'.op = "update_callback"
                /\ WellFormed(ret'.arg)
                /\ pool'.rates = ret'.arg]_vars

C9_Witness ==
    /\ pool.kind = RATED_SWAP
    /\ Called("update_callback")
    /\ ret.val = BoolVal(TRUE)
    /\ inflight = MaxInflight - 1
    /\ MaxInflight >= 2

QuoteInputs == TokenPairs \X AmountsIn \X Fees

Quote(p, q) ==
    LET r == Pool_get_return(p, q[1][1], q[2], q[1][2], q[3])
    IN <<r.status, r.val>>

(* C10: a quote taken after a refresh request and before its callback is    *)
(* the quote the same inputs gave before the request: the request changes  *)
(* no quote.                                                               *)
C10_RequestChangesNoQuote ==
    [][RequestRan => \A q \in QuoteInputs : Quote(pool', q) = Quote(pool, q)]_vars

C10_Witness ==
    /\ pool.kind = RATED_SWAP
    /\ Called("get_return")
    /\ inflight > 0
    /\ ret.status = "ok"
    /\ ret.val # <<0>>
    /\ pool.rates # InitRates

(* ---- outcomes of the operations, as the caller sees them ---- *)
Outcome(r) == <<r.status, r.val, r.pool>>

SwapInputs == TokenPairs \X AmountsIn \X Guards \X Fees

SwapOf(p, q) == Pool_swap(p, q[1][1], q[2], q[1][2], q[3], q[4])

QuoteOf(p, q) == Pool_get_return(p, q[1][1], q[2], q[1][2], q[4])

AddInputs == {"alice"} \X AmountVecs \X Guards \X Fees

AddOf(p, q) == Pool_add_stable_liquidity(p, q[1], q[2], q[3], q[4])

RemoveInputs == {"alice"} \X AmountsIn \X GuardVecs

RemoveOf(p, q) == Pool_remove_liquidity(p, q[1], q[2], q[3])

BurnInputs == {"alice"} \X AmountVecs \X Guards \X Fees

BurnOf(p, q) == Pool_remove_liquidity_by_tokens(p, q[1], q[2], q[3], q[4])

(* C11: a RatedStable pool with a refresh in flight serves swap,            *)
(* add_stable_liquidity, remove_liquidity and remove_liquidity_by_tokens    *)
(* exactly as with none in flight: the request that puts the first refresh  *)
(* in flight leaves the outcome of each of the four calls, for every input, *)
(* what it was before the request.                                          *)
C11_RequestChangesNoOutcome ==
    [][RequestRan /\ inflight = 0 /\ inflight' = 1
          => /\ \A q \in SwapInputs : Outcome(SwapOf(pool', q)) = Outcome(SwapOf(pool, q))
             /\ \A q \in AddInputs : Outcome(AddOf(pool', q)) = Outcome(AddOf(pool, q))
             /\ \A q \in RemoveInputs :
                   Outcome(RemoveOf(pool', q)) = Outcome(RemoveOf(pool, q))
             /\ \A q \in BurnInputs :
                   Outcome(BurnOf(pool', q)) = Outcome(BurnOf(pool, q))]_vars

C11_Witness ==
    /\ pool.kind = RATED_SWAP
    /\ inflight = MaxInflight
    /\ Called("swap")
    /\ ret.status = "ok"
    /\ ret.val # <<0>>
    /\ pool.rates # InitRates

(* C12: on every kind a swap whose min_amount_out is above the true quote  *)
(* for its inputs fails and leaves volumes, ledger and reserves (the whole *)
(* pool) as they were.                                                     *)
C12_SlippageFailsClean ==
    ret = NoCall
       => \A q \in QuoteInputs :
             LET quote == Pool_get_return(pool, q[1][1], q[2], q[1][2], q[3])
             IN quote.status = "ok"
                   => \A mo \in (quote.val[1] + 1)..(MaxBalance + 1) :
                         LET s == Pool_swap(pool, q[1][1], q[2], q[1][2], mo, q[3])
                         IN s.status = "fail" /\ s.pool = pool

C12_Witness ==
    /\ Called("swap")
    /\ ret.status = "fail"
    /\ \A i \in 1..N : pool.amounts[i] > 0 /\ pool.volumes[i] > 0
    /\ \E q \in SwapInputs :
          /\ QuoteOf(pool, q).status = "ok"
          /\ q[3] > QuoteOf(pool, q).val[1]

(* C13: on StableSwap and RatedStable, remove_liquidity_by_tokens whose     *)
(* max_burn_shares is below the burn the withdrawal requires (the one        *)
(* predict_remove_liquidity_by_tokens gives) fails and leaves the pool as   *)
(* it was.                                                                  *)
C13_BurnLimitFailsClean ==
    ret = NoCall /\ pool.kind # SIMPLE_POOL
       => \A am \in AmountVecs, f \in Fees :
             LET need == Pool_predict_remove_liquidity_by_tokens(pool, am, f)
             IN need.status = "ok"
                   => \A s \in Holders, mb \in 0..(need.val[1] - 1) :
                         LET r == Pool_remove_liquidity_by_tokens(pool, s, am, mb, f)
                         IN r.status = "fail" /\ r.pool = pool

C13_Witness ==
    /\ Called("remove_liquidity_by_tokens")
    /\ ret.status = "fail"
    /\ pool.kind = RATED_SWAP
    /\ pool.rates # InitRates
    /\ \E q \in Holders \X AmountVecs \X AmountsIn \X Fees :
          LET need == Pool_predict_remove_liquidity_by_tokens(pool, q[2], q[4])
          IN /\ need.status = "ok"
             /\ q[3] < need.val[1]
             /\ need.val[1] <= BalanceOf(pool, q[1])

TransferInputs == Holders \X Holders \X (0..MaxBalance + 1)

(* C14: share_transfer is served on every kind and fails exactly when the   *)
(* sender holds less than the amount or the receiver is not registered; a   *)
(* failed transfer changes nothing; share_register and share_balances are   *)
(* served on every kind.                                                    *)
C14_TransferUniform ==
    ret = NoCall
       => /\ \A q \in TransferInputs :
                LET t == Pool_share_transfer(pool, q[1], q[2], q[3])
                IN /\ t.status \in {"ok", "fail"}
                   /\ t.status = "fail"
                         <=> \/ Pool_share_balances(pool, q[1]) < q[3]
                             \/ q[2] \notin pool.registered
                   /\ t.status = "fail" => t.pool = pool
          /\ \A a \in Holders :
                /\ Pool_share_register(pool, a).status = "ok"
                /\ a \in Pool_share_register(pool, a).pool.registered
                /\ Pool_share_balances(pool, a) \in 0..pool.shares_total_supply

C14_Witness ==
    /\ Called("share_transfer")
    /\ ret.status = "fail"
    /\ pool.kind = SIMPLE_POOL
    /\ \E s \in Holders, r \in Holders :
          /\ Pool_share_balances(pool, s) >= MaxAmount
          /\ r \notin pool.registered

(* C15: the kind tag and the constituent-token list a pool reports are the  *)
(* ones it was created with: no operation changes what kind() and tokens()  *)
(* return.                                                                  *)
C15_KindAndTokensFixed ==
    [][/\ Pool_kind(pool').val = Pool_kind(pool).val
       /\ Pool_tokens(pool').val = Pool_tokens(pool).val
       /\ ret'.op = "kind" => ret'.val = <<Pool_kind(pool).val>>
       /\ ret'.op = "tokens" => ret'.val = Pool_tokens(pool).val]_vars

C15_Witness ==
    /\ Called("tokens")
    /\ ret.val = Tokens
    /\ pool.kind = RATED_SWAP
    /\ pool.rates # InitRates
    /\ pool.registered = Holders
    /\ \E i \in 1..N : pool.volumes[i] > 0

(* C16: every volume accumulator only grows; a successful swap adds the     *)
(* amount taken in to the input token's accumulator and the amount paid out *)
(* to the output token's; no other operation, and no failed swap, changes   *)
(* an accumulator.                                                          *)
C16_VolumesFollowSwaps ==
    [][/\ \A k \in 1..N : Pool_get_volumes(pool').val[k] >= Pool_get_volumes(pool).val[k]
       /\ Pool_get_volumes(pool').val # Pool_get_volumes(pool).val
             => ret'.op = "swap" /\ ret'.status = "ok"
       /\ ret'.op = "swap" /\ ret'.status = "ok"
             => \E i \in 1..N, o \in 1..N :
                   /\ i # o
                   /\ pool'.amounts[i] > pool.amounts[i]
                   /\ pool'.volumes[i] - pool.volumes[i]
                         = pool'.amounts[i] - pool.amounts[i]
                   /\ pool'.volumes[o] - pool.volumes[o]
                         = pool.amounts[o] - pool'.amounts[o]
                   /\ ret'.val = <<pool.amounts[o] - pool'.amounts[o]>>]_vars

C16_Witness ==
    /\ Called("swap")
    /\ ret.status = "ok"
    /\ ret.val = <<MaxAmount>>
    /\ \A k \in 1..N : pool.volumes[k] = MaxVolume

RatedViews ==
    {"get_rated_return", "predict_add_rated_liquidity",
     "predict_remove_rated_liquidity_by_tokens"}

RatedQuoteOf(p, q, r) == Pool_get_rated_return(p, q[1][1], q[2], q[1][2], r, q[3])

(* C17: a rate vector handed to get_rated_return, predict_add_rated_        *)
(* liquidity or predict_remove_rated_liquidity_by_tokens is used for that   *)
(* call only: the committed rates and the refresh flag stay as they were,   *)
(* and the same call made next without a vector answers from the committed  *)
(* rates, as it did before.                                                 *)
C17_OverrideIsEphemeral ==
    ret = NoCall /\ pool.kind = RATED_SWAP
       => \A r \in RateVecs :
             /\ \A q \in QuoteInputs :
                   LET once == RatedQuoteOf(pool, q, r)
                   IN /\ once.pool.rates = pool.rates
                      /\ once.pool.refreshing = pool.refreshing
                      /\ Outcome(RatedQuoteOf(once.pool, q, NoRates))
                            = Outcome(RatedQuoteOf(pool, q, NoRates))
             /\ \A am \in AmountVecs, f \in Fees :
                   LET add == Pool_predict_add_rated_liquidity(pool, am, r, f)
                       del == Pool_predict_remove_rated_liquidity_by_tokens(pool, am, r, f)
                   IN /\ add.pool.rates = pool.rates
                      /\ add.pool.refreshing = pool.refreshing
                      /\ Outcome(Pool_predict_add_rated_liquidity(add.pool, am, NoRates, f))
                            = Outcome(Pool_predict_add_rated_liquidity(pool, am, NoRates, f))
                      /\ del.pool.rates = pool.rates
                      /\ del.pool.refreshing = pool.refreshing
                      /\ Outcome(Pool_predict_remove_rated_liquidity_by_tokens(
                                     del.pool, am, NoRates, f))
                            = Outcome(Pool_predict_remove_rated_liquidity_by_tokens(
                                          pool, am, NoRates, f))

C17_Witness ==
    /\ Called("get_rated_return")
    /\ ret.status = "ok"
    /\ pool.rates # InitRates
    /\ \A q \in QuoteInputs : RatedQuoteOf(pool, q, NoRates).val # ret.val
    /\ \E q \in QuoteInputs, r \in RateVecs :
          r # pool.rates /\ RatedQuoteOf(pool, q, r).val = ret.val

PredictViews ==
    {"predict_add_stable_liquidity", "predict_remove_liquidity",
     "predict_remove_liquidity_by_tokens"}

(* C19 as stated: predict_add_stable_liquidity, predict_remove_liquidity    *)
(* and predict_remove_liquidity_by_tokens are each served on StableSwap and *)
(* RatedStable, abort on ConstantProduct, and change nothing.               *)
C19_PredictionsOnBothStableKinds ==
    [][ret'.op \in PredictViews
          => /\ ret'.status = "abort" <=> pool.kind = SIMPLE_POOL
             /\ pool' = pool
             /\ inflight' = inflight]_vars

(* C19 amended: predict_remove_liquidity and                                *)
(* predict_remove_liquidity_by_tokens are served on StableSwap and          *)
(* RatedStable and abort on ConstantProduct; predict_add_stable_liquidity   *)
(* is served on StableSwap only and aborts on ConstantProduct and on        *)
(* RatedStable; none of the three changes anything.                         *)
C19_PredictionsAsDispatched ==
    [][ret'.op \in PredictViews
          => /\ ret'.op = "predict_add_stable_liquidity"
                   => (ret'.status = "abort" <=> pool.kind # STABLE_SWAP)
             /\ ret'.op # "predict_add_stable_liquidity"
                   => (ret'.status = "abort" <=> pool.kind = SIMPLE_POOL)
             /\ pool' = pool
             /\ inflight' = inflight]_vars

C19_Witness ==
    /\ Called("predict_add_stable_liquidity")
    /\ ret.status = "abort"
    /\ pool.kind = RATED_SWAP
    /\ pool.shares_total_supply > 0
    /\ inflight > 0

ValidPair(t) == HasToken(t[1]) /\ HasToken(t[2]) /\ t[1] # t[2]

Variants == <<SIMPLE_POOL, STABLE_SWAP, RATED_SWAP>>

(* The enumeration with one more kind of pool added as its last item.       *)
VariantsAppended == Append(Variants, "NEW_POOL")

VariantIndex_from_last(variants, k) ==
    Len(variants) - (CHOOSE i \in 1..Len(variants) : variants[i] = k)

VariantIndex(variants, k) ==
    (CHOOSE i \in 1..Len(variants) : variants[i] = k) - 1

VariantAt(variants, tag) ==
    CHOOSE k \in {variants[i] : i \in 1..Len(variants)} : VariantIndex(variants, k) = tag

HolderList == <<"alice", "bob">>
H == Len(HolderList)

Flag(b) == IF b THEN 1 ELSE 0

BorshPayload(p) ==
    p.token_account_ids \o p.amounts \o p.volumes
       \o [i \in 1..H |-> Flag(HolderList[i] \in p.registered)]
       \o [i \in 1..H |-> p.shares[HolderList[i]]]
       \o <<p.shares_total_supply>>
       \o (IF p.kind = RATED_SWAP THEN p.rates \o <<Flag(p.refreshing)>> ELSE <<>>)

BorshSerialize(variants, p) == <<VariantIndex(variants, p.kind)>> \o BorshPayload(p)

BorshDeserialize(variants, bytes) ==
    LET k == VariantAt(variants, bytes[1])
        body == Tail(bytes)
        at == 3 * N + 2 * H + 1
    IN [kind |-> k,
        token_account_ids |-> SubSeq(body, 1, N),
        amounts |-> SubSeq(body, N + 1, 2 * N),
        volumes |-> SubSeq(body, 2 * N + 1, 3 * N),
        registered |-> {HolderList[i] : i \in {j \in 1..H : body[3 * N + j] = 1}},
        shares |-> [a \in Holders |->
                      body[3 * N + H + (CHOOSE i \in 1..H : HolderList[i] = a)]],
        shares_total_supply |-> body[at],
        rates |-> IF k = RATED_SWAP THEN SubSeq(body, at + 1, at + N) ELSE InitRates,
        refreshing |-> IF k = RATED_SWAP THEN body[at + N + 1] = 1 ELSE FALSE]

(* C18: a pool of any of the three existing kinds, persisted by the         *)
(* current enumeration once a call has completed, is read back as the      *)
(* identical pool by the                                                    *)
(* enumeration with a new kind appended, and the appended enumeration       *)
(* writes the existing kinds' records byte for byte as before.              *)
C18_AppendKeepsRecords ==
    ret = NoCall
       => /\ BorshDeserialize(VariantsAppended, BorshSerialize(Variants, pool)) = pool
          /\ BorshSerialize(VariantsAppended, pool) = BorshSerialize(Variants, pool)

C18_Witness ==
    /\ BorshSerialize(Variants, pool)[1] = Len(Variants) - 1
    /\ pool.rates # InitRates
    /\ pool.registered = Holders
    /\ pool.shares_total_supply = MaxBalance
    /\ \A i \in 1..N : pool.volumes[i] > 0
    /\ ret = NoCall

====
